---- MODULE Spec2Model ----
(***************************************************************************)
(* The request pipeline of src/app.js: the Express middleware chain       *)
(* (timer, three morgan loggers, JSON body parser, routes, finalization,  *)
(* 404 stage, central error handler), the append-only log file behind     *)
(* accessLogStream and the two prom-client metrics.                        *)
(*                                                                         *)
(* One action per middleware / route handler / event-loop callback.       *)
(* `running` is the request whose synchronous turn holds the single-      *)
(* threaded event loop (0: the loop is idle); requests interleave only     *)
(* at the suspension points of the code: reading a request body, the       *)
(* await in GET /metrics, and the response's 'finish' event.               *)
(***************************************************************************)
EXTENDS Integers, Sequences, FiniteSets, TLC

\* Number of requests the model lets arrive.
MaxReqs == 2

Reqs == 1..MaxReqs

VARIABLES
    pc,          \* pc[r]: the middleware stage request r is at
    running,     \* the request whose synchronous turn is executing, 0 if none
    req,         \* req[r]: method, path, start_time, route
    res,         \* res[r]: statusCode, headersSent, body
    err,         \* err[r]: the error object travelling down the chain
    loggers,     \* loggers[r]: streams of the morgan on-finished listeners
    logFile,     \* content of logs/main.log, a sequence of tokens
    stdout,      \* what was written to the console
    histogram,   \* observations of http_request_duration_seconds
    appErrors,   \* increments of application_errors_total
    registryOk,  \* FALSE: calls into the metrics registry throw
    sinkOk,      \* FALSE: writes to the log file fail
    streamError, \* an 'error' event of accessLogStream is pending
    crashed,     \* the process died of an uncaught exception
    boot,        \* how far the evaluation of the module (startup) has come
    fd,          \* state of the file descriptor of accessLogStream
    fmt          \* a record given to the formatters, and the text rendered

vars == <<pc, running, req, res, err, loggers, logFile, stdout, histogram,
          appErrors, registryOk, sinkOk, streamError, crashed, boot, fd, fmt>>

----------------------------------------------------------------------------
\* Values

\* err.status is absent (undefined)
NoStatus == 0

\* const status = err.status ?? 500
DefaultStatus == 500

\* res.statusCode of a fresh response
InitialStatusCode == 200

\* The (method, path) pairs the model sends.
Inputs ==
    { [method |-> "GET",  path |-> "/"],
      [method |-> "GET",  path |-> "/status"],
      [method |-> "POST", path |-> "/echo"],
      [method |-> "GET",  path |-> "/random"],
      [method |-> "GET",  path |-> "/compute"],
      [method |-> "GET",  path |-> "/error"],
      [method |-> "GET",  path |-> "/metrics"],
      [method |-> "GET",  path |-> "/unknown-path"],
      [method |-> "POST", path |-> "/compute"] }

NoReq == [method |-> "", path |-> "", start_time |-> FALSE, route |-> ""]

NoBody == [kind |-> "none", message |-> "", status |-> 0]

NoRes == [statusCode |-> InitialStatusCode, headersSent |-> FALSE, body |-> NoBody]

NoErr == [message |-> "", status |-> NoStatus]

\* pool of maybeThrow
Pool ==
    { [message |-> "Database connection failed", status |-> 503],
      [message |-> "Cache not available",        status |-> 500],
      [message |-> "Token expired",              status |-> 401] }

\* new Error('This endpoint always bombs'): no status
AlwaysBombs == [message |-> "This endpoint always bombs", status |-> NoStatus]

NotFoundErrorNoStatus == [message |-> "Not Found", status |-> NoStatus]

\* Object.assign(new Error('Not Found'), { status: 404 })
NotFoundError == [message |-> "Not Found", status |-> 404]

\* the error express.json() passes to next() for a malformed body
ParseError == [message |-> "Unexpected token", status |-> 400]

\* what a failing call into the metrics registry throws
RegistryError == [message |-> "registry failure", status |-> NoStatus]

StatusStr(s) ==
    CASE s = 200 -> "200"
      [] s = 400 -> "400"
      [] s = 401 -> "401"
      [] s = 404 -> "404"
      [] s = 500 -> "500"
      [] s = 503 -> "503"
      [] OTHER   -> "-"

----------------------------------------------------------------------------
\* Log lines.  A line is a sequence of tokens <<r, key, value>>: the
\* KEY=VALUE segments of the rendered text, tagged with the request that
\* rendered them; NL is the newline character.

Tok(r, k, v) == <<r, k, v>>

NL == <<0, "NL", "">>

\* structuredLogFormat(tokens, req, res)
StructuredLogFormat(r) ==
    << Tok(r, "date", "iso"),
       Tok(r, "LEVEL", "INFO"),
       Tok(r, "STATUS", IF res[r].headersSent THEN StatusStr(res[r].statusCode) ELSE "-"),
       Tok(r, "METHOD", req[r].method),
       Tok(r, "PATH", req[r].path),
       Tok(r, "RES_TIME_MS", "ms"),
       Tok(r, "LENGTH", "-"),
       Tok(r, "REMOTE_IP", "ip"),
       Tok(r, "USER_AGENT", "ua") >>

\* morgan writes line + '\n' to its stream
MorganLine(r) == StructuredLogFormat(r) \o <<NL>>

ErrorLogSingleLineNoNewline(r, e, status) ==
    << Tok(r, "date", "iso"),
       Tok(r, "LEVEL", "SERVER_ERROR"),
       Tok(r, "STATUS", StatusStr(status)),
       Tok(r, "METHOD", req[r].method),
       Tok(r, "PATH", req[r].path),
       Tok(r, "MESSAGE", e.message),
       Tok(r, "STACK", "stack") >>

\* errorLogSingleLine
ErrorLogSingleLine(r, e, status) ==
    << Tok(r, "date", "iso"),
       Tok(r, "LEVEL", "SERVER_ERROR"),
       Tok(r, "STATUS", StatusStr(status)),
       Tok(r, "METHOD", req[r].method),
       Tok(r, "PATH", req[r].path),
       Tok(r, "MESSAGE", e.message),
       Tok(r, "STACK", "stack"),
       NL >>

\* warningLogSingleLine
WarningLogSingleLine(r, e, status) ==
    << Tok(r, "date", "iso"),
       Tok(r, "LEVEL", "CLIENT_ERROR"),
       Tok(r, "STATUS", StatusStr(status)),
       Tok(r, "METHOD", req[r].method),
       Tok(r, "PATH", req[r].path),
       Tok(r, "MESSAGE", e.message),
       NL >>

\* accessLogStream.write(chunk): the chunk is appended whole; a failed
\* write appends nothing
StreamWrite(file, chunk) == IF sinkOk THEN file \o chunk ELSE file

----------------------------------------------------------------------------
\* Metrics

\* const route = req.route ? req.route.path : req.path
RouteLabel(rq) == IF rq.route # "" THEN rq.route ELSE rq.path

Labels(r, rq, status) ==
    [rid |-> r, method |-> rq.method, route |-> RouteLabel(rq), status_code |-> status]

EffectiveStatusNoDefault(e) == e.status

\* const status = err.status ?? 500
EffectiveStatus(e) == IF e.status = NoStatus THEN DefaultStatus ELSE e.status

IsServerErrorAbove500(status) == status > 500

IsServerErrorFrom400(status) == status >= 400

\* if (status >= 500)
IsServerError(status) == status >= 500

IsClientErrorNoLowerBound(status) == status < 500

IsClientErrorAbove400(status) == status > 400 /\ status < 500

\* else if (status >= 400 && status < 500)
IsClientError(status) == status >= 400 /\ status < 500

\* { error: { message: err.message, status } }
ErrorBody(e, status) == [kind |-> "json-error", message |-> e.message, status |-> status]

\* nothing is being formatted
NoFmt == [phase |-> "idle", level |-> "", message |-> <<>>, stack |-> <<>>,
          path |-> <<>>, text |-> <<>>]

----------------------------------------------------------------------------
\* the server is up: the module was evaluated, the log file is open
Init ==
    /\ pc = [r \in Reqs |-> "new"]
    /\ running = 0
    /\ req = [r \in Reqs |-> NoReq]
    /\ res = [r \in Reqs |-> NoRes]
    /\ err = [r \in Reqs |-> NoErr]
    /\ loggers = [r \in Reqs |-> <<>>]
    /\ logFile = <<>>
    /\ stdout = <<>>
    /\ histogram = <<>>
    /\ appErrors = <<>>
    /\ registryOk = TRUE
    /\ sinkOk = TRUE
    /\ streamError = FALSE
    /\ crashed = FALSE
    /\ boot = "up"
    /\ fd = "open"
    /\ fmt = NoFmt

\* request r is at stage s and holds the event loop
At(r, s) == pc[r] = s /\ running = r /\ ~crashed

\* a callback for request r waiting at s starts a turn of the idle loop
Wakes(r, s) == pc[r] = s /\ running = 0 /\ ~crashed

\* the server accepts a connection (requests are numbered in arrival order)
Arrive(r) ==
    /\ Wakes(r, "new")
    /\ boot = "up"
    /\ \A q \in Reqs : q < r => pc[q] # "new"
    /\ \E i \in Inputs :
         req' = [req EXCEPT ![r] = [NoReq EXCEPT !.method = i.method, !.path = i.path]]
    /\ pc' = [pc EXCEPT ![r] = "timer"]
    /\ running' = r
    /\ UNCHANGED <<boot, fd, fmt>>
    /\ UNCHANGED <<res, err, loggers, logFile, stdout, histogram, appErrors,
                   registryOk, sinkOk, streamError, crashed>>

\* app.use((req, res, next) => { req.start_time = process.hrtime(); next(); })
TimerStart(r) ==
    /\ At(r, "timer")
    /\ req' = [req EXCEPT ![r].start_time = TRUE]
    /\ pc' = [pc EXCEPT ![r] = "morganFile"]
    /\ UNCHANGED <<boot, fd, fmt>>
    /\ UNCHANGED <<running, res, err, loggers, logFile, stdout, histogram, appErrors,
                   registryOk, sinkOk, streamError, crashed>>

\* app.use(morgan(structuredLogFormat, { stream: accessLogStream }))
FileStream == "file"

ConsoleStreamIsFile == "file"

\* app.use(morgan(structuredLogFormat, { skip: ... })): no stream option,
\* so morgan writes to process.stdout
ConsoleStream == "stdout"

ImmediateOn == TRUE

\* morgan's option `immediate` (write the line when the request arrives
\* instead of when the response has finished) is not given
Immediate == FALSE

\* morgan registers its logger to run when the response has finished
MorganFile(r) ==
    /\ At(r, "morganFile")
    /\ IF Immediate
         THEN /\ logFile' = StreamWrite(logFile, MorganLine(r))
              /\ streamError' = (streamError \/ ~sinkOk)
              /\ loggers' = loggers
         ELSE /\ loggers' = [loggers EXCEPT ![r] = Append(@, FileStream)]
              /\ UNCHANGED <<logFile, streamError>>
    /\ pc' = [pc EXCEPT ![r] = "morganConsole"]
    /\ UNCHANGED <<boot, fd, fmt>>
    /\ UNCHANGED <<running, req, res, err, stdout, histogram, appErrors,
                   registryOk, sinkOk, crashed>>

MorganConsole(r) ==
    /\ At(r, "morganConsole")
    /\ loggers' = [loggers EXCEPT ![r] = Append(@, ConsoleStream)]
    /\ pc' = [pc EXCEPT ![r] = "morganDev"]
    /\ UNCHANGED <<boot, fd, fmt>>
    /\ UNCHANGED <<running, req, res, err, logFile, stdout, histogram, appErrors,
                   registryOk, sinkOk, streamError, crashed>>

\* app.use(morgan('dev'))
MorganDev(r) ==
    /\ At(r, "morganDev")
    /\ loggers' = [loggers EXCEPT ![r] = Append(@, "stdout")]
    /\ pc' = [pc EXCEPT ![r] = "json"]
    /\ UNCHANGED <<boot, fd, fmt>>
    /\ UNCHANGED <<running, req, res, err, logFile, stdout, histogram, appErrors,
                   registryOk, sinkOk, streamError, crashed>>

\* app.use(express.json()): a request without a body passes straight on,
\* a body is read asynchronously
JsonParser(r) ==
    /\ At(r, "json")
    /\ IF req[r].method = "POST"
         THEN pc' = [pc EXCEPT ![r] = "jsonBody"] /\ running' = 0
         ELSE pc' = [pc EXCEPT ![r] = "routes"] /\ running' = running
    /\ UNCHANGED <<boot, fd, fmt>>
    /\ UNCHANGED <<req, res, err, loggers, logFile, stdout, histogram, appErrors,
                   registryOk, sinkOk, streamError, crashed>>

\* the body has been read: parsed, or next(err) with status 400
JsonBodyRead(r) ==
    /\ Wakes(r, "jsonBody")
    /\ running' = r
    /\ \E ok \in BOOLEAN :
         IF ok THEN pc' = [pc EXCEPT ![r] = "routes"] /\ err' = err
               ELSE pc' = [pc EXCEPT ![r] = "errorHandler"]
                    /\ err' = [err EXCEPT ![r] = ParseError]
    /\ UNCHANGED <<boot, fd, fmt>>
    /\ UNCHANGED <<req, res, loggers, logFile, stdout, histogram, appErrors,
                   registryOk, sinkOk, streamError, crashed>>

----------------------------------------------------------------------------
\* Routes

Matches(rq, m, p) == rq.method = m /\ rq.path = p

SendAndNext(r, body) ==
    /\ res' = [res EXCEPT ![r] = [statusCode |-> @.statusCode, headersSent |-> TRUE,
                                  body |-> body]]
    /\ pc' = [pc EXCEPT ![r] = "finalize"]
    /\ running' = running

\* res.send / res.json / res.end: the response goes out with the current
\* status code and the chain stops
Send(r, body) ==
    /\ res' = [res EXCEPT ![r] = [statusCode |-> @.statusCode, headersSent |-> TRUE,
                                  body |-> body]]
    /\ pc' = [pc EXCEPT ![r] = "sent"]
    /\ running' = 0

\* the router stores the matched route in req.route
Matched(r, p) == req' = [req EXCEPT ![r].route = p]

\* app.get('/', (req, res) => res.send(...))
RouteRoot(r) ==
    /\ At(r, "routes")
    /\ Matches(req[r], "GET", "/")
    /\ Matched(r, "/")
    /\ Send(r, [kind |-> "text", message |-> "Hello, world!", status |-> 0])
    /\ UNCHANGED <<boot, fd, fmt>>
    /\ UNCHANGED <<err, loggers, logFile, stdout, histogram, appErrors,
                   registryOk, sinkOk, streamError, crashed>>

\* app.get('/status', (req, res) => res.json({ ok: true, uptime }))
RouteStatus(r) ==
    /\ At(r, "routes")
    /\ Matches(req[r], "GET", "/status")
    /\ Matched(r, "/status")
    /\ Send(r, [kind |-> "json", message |-> "ok,uptime", status |-> 0])
    /\ UNCHANGED <<boot, fd, fmt>>
    /\ UNCHANGED <<err, loggers, logFile, stdout, histogram, appErrors,
                   registryOk, sinkOk, streamError, crashed>>

\* app.post('/echo', (req, res) => res.json({ youSent: req.body }))
RouteEcho(r) ==
    /\ At(r, "routes")
    /\ Matches(req[r], "POST", "/echo")
    /\ Matched(r, "/echo")
    /\ Send(r, [kind |-> "json", message |-> "youSent", status |-> 0])
    /\ UNCHANGED <<boot, fd, fmt>>
    /\ UNCHANGED <<err, loggers, logFile, stdout, histogram, appErrors,
                   registryOk, sinkOk, streamError, crashed>>

\* function maybeThrow(req, res, next): first handler of /random and /compute
MaybeThrow(r) ==
    /\ At(r, "routes")
    /\ Matches(req[r], "GET", "/random") \/ Matches(req[r], "GET", "/compute")
    /\ Matched(r, req[r].path)
    /\ \/ \E e \in Pool :
            /\ err' = [err EXCEPT ![r] = e]
            /\ pc' = [pc EXCEPT ![r] = "errorHandler"]
       \/ /\ err' = err
          /\ pc' = [pc EXCEPT ![r] = "flaky"]
    /\ UNCHANGED <<boot, fd, fmt>>
    /\ UNCHANGED <<running, res, loggers, logFile, stdout, histogram, appErrors,
                   registryOk, sinkOk, streamError, crashed>>

\* app.get('/random', maybeThrow, (req, res) => res.json({ value }))
RouteRandom(r) ==
    /\ At(r, "flaky")
    /\ req[r].route = "/random"
    /\ Send(r, [kind |-> "json", message |-> "value", status |-> 0])
    /\ UNCHANGED <<boot, fd, fmt>>
    /\ UNCHANGED <<req, err, loggers, logFile, stdout, histogram, appErrors,
                   registryOk, sinkOk, streamError, crashed>>

\* app.get('/compute', maybeThrow, (req, res) => res.json({ result: 42 }))
RouteCompute(r) ==
    /\ At(r, "flaky")
    /\ req[r].route = "/compute"
    /\ Send(r, [kind |-> "json", message |-> "result", status |-> 0])
    /\ UNCHANGED <<boot, fd, fmt>>
    /\ UNCHANGED <<req, err, loggers, logFile, stdout, histogram, appErrors,
                   registryOk, sinkOk, streamError, crashed>>

\* app.get('/error', (req, res, next) => next(new Error(...)))
RouteError(r) ==
    /\ At(r, "routes")
    /\ Matches(req[r], "GET", "/error")
    /\ Matched(r, "/error")
    /\ err' = [err EXCEPT ![r] = AlwaysBombs]
    /\ pc' = [pc EXCEPT ![r] = "errorHandler"]
    /\ UNCHANGED <<boot, fd, fmt>>
    /\ UNCHANGED <<running, res, loggers, logFile, stdout, histogram, appErrors,
                   registryOk, sinkOk, streamError, crashed>>

ExpositionOffByOne == Len(appErrors) + 1

\* promClient.register.metrics(): the value of application_errors_total in
\* the exposition, summed over its series
Exposition == Len(appErrors)

\* app.get('/metrics', async ...): up to the await
RouteMetrics(r) ==
    /\ At(r, "routes")
    /\ Matches(req[r], "GET", "/metrics")
    /\ Matched(r, "/metrics")
    /\ pc' = [pc EXCEPT ![r] = "metricsAwait"]
    /\ running' = 0
    /\ UNCHANGED <<boot, fd, fmt>>
    /\ UNCHANGED <<res, err, loggers, logFile, stdout, histogram, appErrors,
                   registryOk, sinkOk, streamError, crashed>>

\* ... res.end(await promClient.register.metrics()): the exposition carries
\* the current value of application_errors_total
MetricsResume(r) ==
    /\ Wakes(r, "metricsAwait")
    /\ Send(r, [kind |-> "exposition", message |-> "metrics", status |-> Exposition])
    /\ UNCHANGED <<boot, fd, fmt>>
    /\ UNCHANGED <<req, err, loggers, logFile, stdout, histogram, appErrors,
                   registryOk, sinkOk, streamError, crashed>>

RouteExists(rq) ==
    \/ rq.method = "GET" /\ rq.path \in {"/", "/status", "/random", "/compute",
                                          "/error", "/metrics"}
    \/ rq.method = "POST" /\ rq.path = "/echo"

\* no route matches: the router falls through to the next middleware
NoRoute(r) ==
    /\ At(r, "routes")
    /\ ~RouteExists(req[r])
    /\ pc' = [pc EXCEPT ![r] = "finalize"]
    /\ UNCHANGED <<boot, fd, fmt>>
    /\ UNCHANGED <<running, req, res, err, loggers, logFile, stdout, histogram,
                   appErrors, registryOk, sinkOk, streamError, crashed>>

----------------------------------------------------------------------------
\* Post-processing, 404 and error handling

\* httpRequestDurationMicroseconds.observe(labels, durationInSeconds) with
\* status_code: res.statusCode, the status code of the response at the
\* time of the call
Observation(r) == Labels(r, req[r], res[r].statusCode)

\* the finalization middleware; Express turns an exception thrown by a
\* middleware into next(err)
Finalize(r) ==
    /\ At(r, "finalize")
    /\ IF req[r].start_time /\ ~registryOk
         THEN /\ err' = [err EXCEPT ![r] = RegistryError]
              /\ pc' = [pc EXCEPT ![r] = "errorHandler"]
              /\ histogram' = histogram
         ELSE /\ histogram' = IF req[r].start_time
                                THEN Append(histogram, Observation(r))
                                ELSE histogram
              /\ err' = err
              /\ pc' = [pc EXCEPT ![r] = "notFound"]
    /\ UNCHANGED <<boot, fd, fmt>>
    /\ UNCHANGED <<running, req, res, loggers, logFile, stdout, appErrors,
                   registryOk, sinkOk, streamError, crashed>>

\* app.use((req, res, next) => next(Object.assign(new Error('Not Found'), { status: 404 })))
NotFound(r) ==
    /\ At(r, "notFound")
    /\ err' = [err EXCEPT ![r] = NotFoundError]
    /\ pc' = [pc EXCEPT ![r] = "errorHandler"]
    /\ UNCHANGED <<boot, fd, fmt>>
    /\ UNCHANGED <<running, req, res, loggers, logFile, stdout, histogram, appErrors,
                   registryOk, sinkOk, streamError, crashed>>

\* res.status(status).json({ error: { message: err.message, status } })
SendError(r, e, status) ==
    /\ res' = [res EXCEPT ![r] = [statusCode |-> status, headersSent |-> TRUE,
                                  body |-> ErrorBody(e, status)]]
    /\ pc' = [pc EXCEPT ![r] = "sent"]
    /\ running' = 0
    /\ err' = err

\* the central error-handling middleware.  appErrorsCounter.inc throwing
\* leaves the handler before the response is sent, and Express passes the
\* exception on to its default handler
ErrorHandler(r) ==
    /\ At(r, "errorHandler")
    /\ LET e == err[r]
           status == EffectiveStatus(e)
       IN  IF IsServerError(status)
             THEN /\ logFile' = StreamWrite(logFile, ErrorLogSingleLine(r, e, status))
                  /\ streamError' = (streamError \/ ~sinkOk)
                  /\ stdout' = Append(stdout, Tok(r, "console.error", e.message))
                  /\ IF registryOk
                       THEN /\ appErrors' = Append(appErrors, Labels(r, req[r], status))
                            /\ SendError(r, e, status)
                       ELSE /\ appErrors' = appErrors
                            /\ err' = [err EXCEPT ![r] = RegistryError]
                            /\ pc' = [pc EXCEPT ![r] = "finalHandler"]
                            /\ UNCHANGED <<res, running>>
             ELSE IF IsClientError(status)
             THEN /\ logFile' = StreamWrite(logFile, WarningLogSingleLine(r, e, status))
                  /\ streamError' = (streamError \/ ~sinkOk)
                  /\ stdout' = Append(stdout, Tok(r, "console.warn", e.message))
                  /\ appErrors' = appErrors
                  /\ SendError(r, e, status)
             ELSE /\ UNCHANGED <<logFile, streamError, stdout, appErrors>>
                  /\ SendError(r, e, status)
    /\ UNCHANGED <<boot, fd, fmt>>
    /\ UNCHANGED <<req, loggers, histogram, registryOk, sinkOk, crashed>>

RECURSIVE FinishWrites(_, _, _, _)
\* the chunks the on-finished loggers of request r write to stream s, in
\* the order the loggers were registered
FinishWrites(r, ls, s, out) ==
    IF ls = <<>> THEN out
    ELSE FinishWrites(r, Tail(ls), s,
                      IF Head(ls) = s THEN out \o MorganLine(r) ELSE out)

\* the response's 'finish' event: every morgan logger of the request
\* renders its line and writes it to its stream
ResponseFinish(r) ==
    /\ Wakes(r, "sent")
    /\ LET chunk == FinishWrites(r, loggers[r], "file", <<>>)
       IN  /\ logFile' = StreamWrite(logFile, chunk)
           /\ streamError' = (streamError \/ (chunk # <<>> /\ ~sinkOk))
    /\ stdout' = stdout \o FinishWrites(r, loggers[r], "stdout", <<>>)
    /\ pc' = [pc EXCEPT ![r] = "finished"]
    /\ UNCHANGED <<boot, fd, fmt>>
    /\ UNCHANGED <<running, req, res, err, loggers, histogram, appErrors,
                   registryOk, sinkOk, crashed>>

----------------------------------------------------------------------------
\* Failures of the environment

\* the metrics registry starts to fail
RegistryBreaks ==
    /\ ~crashed /\ registryOk
    /\ registryOk' = FALSE
    /\ UNCHANGED <<boot, fd, fmt>>
    /\ UNCHANGED <<pc, running, req, res, err, loggers, logFile, stdout, histogram,
                   appErrors, sinkOk, streamError, crashed>>

\* the log file becomes unwritable
SinkBreaks ==
    /\ ~crashed /\ sinkOk
    /\ sinkOk' = FALSE
    /\ UNCHANGED <<boot, fd, fmt>>
    /\ UNCHANGED <<pc, running, req, res, err, loggers, logFile, stdout, histogram,
                   appErrors, registryOk, streamError, crashed>>

\* listeners registered on accessLogStream for 'error' (none: the stream is
\* created and only written to)
ErrorListeners == {}

\* the failed write's 'error' event is emitted on accessLogStream; an
\* 'error' event without a listener is thrown as an uncaught exception
StreamErrorEvent ==
    /\ ~crashed /\ running = 0 /\ streamError
    /\ streamError' = FALSE
    /\ crashed' = (ErrorListeners = {})
    /\ UNCHANGED <<boot, fd, fmt>>
    /\ UNCHANGED <<pc, running, req, res, err, loggers, logFile, stdout, histogram,
                   appErrors, registryOk, sinkOk>>

\* no error middleware is left after the central handler: Express's default
\* handler answers 500 with an HTML page
FinalHandler(r) ==
    /\ At(r, "finalHandler")
    /\ res' = [res EXCEPT ![r] = [statusCode |-> EffectiveStatus(err[r]),
                                  headersSent |-> TRUE,
                                  body |-> [kind |-> "html", message |-> err[r].message,
                                            status |-> 0]]]
    /\ stdout' = Append(stdout, Tok(r, "console.error", err[r].message))
    /\ pc' = [pc EXCEPT ![r] = "sent"]
    /\ running' = 0
    /\ UNCHANGED <<boot, fd, fmt>>
    /\ UNCHANGED <<req, err, loggers, logFile, histogram, appErrors,
                   registryOk, sinkOk, streamError, crashed>>

----------------------------------------------------------------------------
Next ==
    \E r \in Reqs :
       \/ Arrive(r)
       \/ TimerStart(r)
       \/ MorganFile(r)
       \/ MorganConsole(r)
       \/ MorganDev(r)
       \/ JsonParser(r)
       \/ JsonBodyRead(r)
       \/ RouteRoot(r)
       \/ RouteStatus(r)
       \/ RouteEcho(r)
       \/ MaybeThrow(r)
       \/ RouteRandom(r)
       \/ RouteCompute(r)
       \/ RouteError(r)
       \/ RouteMetrics(r)
       \/ MetricsResume(r)
       \/ NoRoute(r)
       \/ Finalize(r)
       \/ NotFound(r)
       \/ ErrorHandler(r)
       \/ ResponseFinish(r)

\* the service with a working registry and a writable log file
Spec == Init /\ [][Next]_vars

NextFault ==
    \/ Next
    \/ RegistryBreaks
    \/ SinkBreaks
    \/ StreamErrorEvent
    \/ \E r \in Reqs : FinalHandler(r)

\* the service when the registry or the log file may start to fail
SpecFault == Init /\ [][NextFault]_vars

----------------------------------------------------------------------------
\* Reading the state

RECURSIVE SplitLines(_, _, _, _)
\* <<the complete lines of a file, the text after the last newline>>, reading
\* the file from position i with the current line starting at position start
SplitLines(file, i, start, out) ==
    IF i > Len(file) THEN <<out, SubSeq(file, start, Len(file))>>
    ELSE IF file[i] = NL
      THEN SplitLines(file, i + 1, i + 1, Append(out, SubSeq(file, start, i - 1)))
    ELSE SplitLines(file, i + 1, start, out)

FileLines == SplitLines(logFile, 1, 1, <<>>)[1]

FileTail == SplitLines(logFile, 1, 1, <<>>)[2]

LineRid(l) == IF Len(l) >= 1 THEN l[1][1] ELSE 0

LineLevel(l) == IF Len(l) >= 2 /\ l[2][2] = "LEVEL" THEN l[2][3] ELSE ""

\* number of the lines that request r wrote at a level
CountLines(lines, r, level) ==
    Cardinality({ i \in 1..Len(lines) :
                    LineRid(lines[i]) = r /\ LineLevel(lines[i]) = level })

\* number of histogram observations recorded for request r
CountObservations(r) ==
    Cardinality({ i \in 1..Len(histogram) : histogram[i].rid = r })

\* number of increments of application_errors_total made for request r
CountIncs(r) ==
    Cardinality({ i \in 1..Len(appErrors) : appErrors[i].rid = r })

\* the response of request r has been sent
Responded(r) == pc[r] \in {"sent", "finished"}

\* request r is complete: its response has finished
Completed(r) == pc[r] = "finished"

\* route matching took place for request r and found no route
Unmatched(r) == ~RouteExists(req[r]) /\ err[r] # ParseError

----------------------------------------------------------------------------
\* Properties

\* C1: every completed request, whatever its exit path, has exactly one
\* observation in the http_request_duration_seconds histogram.
C1_ExactlyOneObservation ==
    \A r \in Reqs : Completed(r) => CountObservations(r) = 1

\* C2: a request whose final status is >= 500 increments
\* application_errors_total exactly once, for its own (method, route,
\* status_code), and writes exactly one SERVER_ERROR line to the log file.
C2_ServerErrorCountedOnce ==
    LET lines == FileLines IN
        \A r \in Reqs :
            (Responded(r) /\ res[r].statusCode >= 500) =>
                /\ CountIncs(r) = 1
                /\ \E i \in 1..Len(appErrors) :
                     appErrors[i] = [rid |-> r, method |-> req[r].method,
                                     route |-> req[r].route,
                                     status_code |-> res[r].statusCode]
                /\ CountLines(lines, r, "SERVER_ERROR") = 1

C2_Witness ==
    \E r \in Reqs : Completed(r) /\ res[r].statusCode = 503 /\ CountIncs(r) = 1

\* C3: a request whose final status is in 400..499 writes exactly one
\* CLIENT_ERROR line and does not increment application_errors_total.
C3_ClientErrorLoggedNotCounted ==
    LET lines == FileLines IN
        \A r \in Reqs :
            (Responded(r) /\ res[r].statusCode >= 400 /\ res[r].statusCode <= 499) =>
                /\ CountLines(lines, r, "CLIENT_ERROR") = 1
                /\ CountIncs(r) = 0

C3_Witness ==
    LET lines == FileLines IN
        \E r, q \in Reqs :
            /\ Completed(r) /\ res[r].statusCode = 400 /\ CountLines(lines, r, "CLIENT_ERROR") = 1
            /\ Completed(q) /\ res[q].statusCode = 401

\* C4: every completed request has exactly one LEVEL=INFO line in the log
\* file, whatever its outcome.
C4_OneRequestLine ==
    LET lines == FileLines IN
        \A r \in Reqs : Completed(r) => CountLines(lines, r, "INFO") = 1

C4_Witness ==
    LET lines == FileLines IN
        \E r, q \in Reqs :
            /\ Completed(r) /\ res[r].statusCode = 200 /\ CountLines(lines, r, "INFO") = 1
            /\ Completed(q) /\ res[q].statusCode = 404 /\ CountLines(lines, q, "INFO") = 1

\* C5: every histogram observation of a request carries that request's final
\* status code, and the matched route pattern or else the request path.
C5_ObservationLabels ==
    \A i \in 1..Len(histogram) :
        LET r == histogram[i].rid
        IN  Responded(r) =>
              /\ histogram[i].status_code = res[r].statusCode
              /\ histogram[i].route =
                   (IF req[r].route # "" THEN req[r].route ELSE req[r].path)

\* C6: GET /error is answered 500 with body {error: {message: "This endpoint
\* always bombs", status: 500}}, writes one SERVER_ERROR line and increments
\* the counter for route "/error"; the status of every JSON error body is
\* the response status, which is err.status when present and 500 otherwise.
C6_ErrorStatusDefaultsTo500 ==
    LET lines == FileLines IN
        \A r \in Reqs :
            Responded(r) =>
                /\ (req[r].method = "GET" /\ req[r].path = "/error") =>
                     /\ res[r].statusCode = 500
                     /\ res[r].body = [kind |-> "json-error",
                                       message |-> "This endpoint always bombs",
                                       status |-> 500]
                     /\ CountLines(lines, r, "SERVER_ERROR") = 1
                     /\ CountIncs(r) = 1
                     /\ \E i \in 1..Len(appErrors) :
                          appErrors[i] = [rid |-> r, method |-> "GET", route |-> "/error",
                                          status_code |-> 500]
                /\ res[r].body.kind = "json-error" =>
                     /\ res[r].body.status = res[r].statusCode
                     /\ res[r].body.message = err[r].message
                     /\ err[r].status # NoStatus => res[r].statusCode = err[r].status
                     /\ err[r].status = NoStatus => res[r].statusCode = 500

C6_Witness ==
    \E r, q \in Reqs :
        /\ Completed(r) /\ req[r].path = "/error" /\ res[r].statusCode = 500
        /\ Completed(q) /\ res[q].body.kind = "json-error" /\ res[q].statusCode = 503

\* C7: a request for which no route matches is answered 404 with body
\* {error: {message: "Not Found", status: 404}}, writes exactly one
\* CLIENT_ERROR line and does not increment the error counter.
C7_UnmatchedIs404 ==
    LET lines == FileLines IN
        \A r \in Reqs :
            (Responded(r) /\ Unmatched(r)) =>
                /\ res[r].statusCode = 404
                /\ res[r].body = [kind |-> "json-error", message |-> "Not Found",
                                  status |-> 404]
                /\ CountLines(lines, r, "CLIENT_ERROR") = 1
                /\ CountLines(lines, r, "SERVER_ERROR") = 0
                /\ CountIncs(r) = 0

C7_Witness ==
    \E r, q \in Reqs :
        /\ Completed(r) /\ req[r].path = "/unknown-path" /\ res[r].statusCode = 404
        /\ Completed(q) /\ req[q].method = "POST" /\ req[q].path = "/compute"
        /\ res[q].statusCode = 404

\* the responses request r can receive while the registry works
RegistryIndependentResponses(r) ==
    IF Unmatched(r)
      THEN { [statusCode |-> 404, headersSent |-> TRUE,
              body |-> [kind |-> "json-error", message |-> "Not Found", status |-> 404]] }
    ELSE IF req[r].path = "/error"
      THEN { [statusCode |-> 500, headersSent |-> TRUE,
              body |-> [kind |-> "json-error", message |-> "This endpoint always bombs",
                        status |-> 500]] }
    ELSE IF req[r].path \in {"/random", "/compute"} /\ req[r].method = "GET"
      THEN { [statusCode |-> e.status, headersSent |-> TRUE,
              body |-> [kind |-> "json-error", message |-> e.message,
                        status |-> e.status]] : e \in Pool }
           \cup { [statusCode |-> 200, headersSent |-> TRUE,
                   body |-> [kind |-> "json",
                             message |-> IF req[r].path = "/random" THEN "value"
                                         ELSE "result",
                             status |-> 0]] }
    ELSE { res[r] }

\* C8: a failing registry call (histogram observe, counter inc) never
\* reaches the requester: the response is the status code and JSON body the
\* request receives when the registry works.
C8_RegistryFailureNotVisible ==
    \A r \in Reqs : Responded(r) => res[r] \in RegistryIndependentResponses(r)

\* C9: a write to the log file that fails after startup is dropped: the
\* service does not crash.
C9_SinkFailureDropped ==
    ~crashed

\* the keys of the three kinds of log line
InfoKeys ==
    <<"date", "LEVEL", "STATUS", "METHOD", "PATH", "RES_TIME_MS", "LENGTH",
      "REMOTE_IP", "USER_AGENT">>

ServerErrorKeys == <<"date", "LEVEL", "STATUS", "METHOD", "PATH", "MESSAGE", "STACK">>

ClientErrorKeys == <<"date", "LEVEL", "STATUS", "METHOD", "PATH", "MESSAGE">>

\* l is one complete record, all of it rendered for one request
WholeLine(l) ==
    /\ Len(l) >= 2
    /\ LineRid(l) \in Reqs
    /\ \A i \in 1..Len(l) : l[i][1] = LineRid(l)
    /\ LET keys == [i \in 1..Len(l) |-> l[i][2]]
       IN  \/ LineLevel(l) = "INFO" /\ keys = InfoKeys
           \/ LineLevel(l) = "SERVER_ERROR" /\ keys = ServerErrorKeys
           \/ LineLevel(l) = "CLIENT_ERROR" /\ keys = ClientErrorKeys

\* C10: whatever the interleaving of the requests in flight, every line of
\* the log file is one complete line rendered for one request event, and
\* the file ends with a newline.
C10_LinesAtomic ==
    LET split == SplitLines(logFile, 1, 1, <<>>)
    IN  /\ split[2] = <<>>
        /\ \A i \in 1..Len(split[1]) : WholeLine(split[1][i])

C10_Witness ==
    LET lines == FileLines
    IN  \E i, j, k \in 1..Len(lines) :
            /\ i < j /\ j < k
            /\ LineRid(lines[i]) = LineRid(lines[k])
            /\ LineRid(lines[i]) # LineRid(lines[j])
            /\ LineLevel(lines[i]) = "SERVER_ERROR"

\* C11: when every one of the N requests was sent to GET /random and all of
\* them have completed, each request has exactly one line in the log file
\* and one histogram observation, and the log file holds N lines.
C11_RandomOneLineEach ==
    LET lines == FileLines IN
        (\A r \in Reqs : Completed(r) /\ req[r].method = "GET" /\ req[r].path = "/random")
          => /\ \A r \in Reqs :
                  /\ Cardinality({ i \in 1..Len(lines) : LineRid(lines[i]) = r }) = 1
                  /\ CountObservations(r) = 1
             /\ Len(lines) = MaxReqs

----------------------------------------------------------------------------
\* The formatters at the level of characters.  A text is a sequence of
\* characters; the fixed pieces of the templates that hold no quote, no
\* newline and no delimiter ("LEVEL=SERVER_ERROR", the date, ...) are kept
\* as single elements.

\* Longest message, stack trace and path drawn (besides ExtraTexts).
MaxStrLen == 2

DQ == "\""

LF == "\n"

CR == "\r"

SP == " "

BAR == "|"

\* characters of an error message or a stack trace
Chars == {"a", DQ, LF, CR, SP, BAR}

\* characters of a request target: no blank, no CR, no LF gets past the
\* HTTP parser
PathChars == {"a", DQ, BAR}

Texts(alphabet, n) == UNION { [1..k -> alphabet] : k \in 0..n }

\* longer texts: a message with a quote and the field delimiter inside, a
\* stack trace with CR LF and indentation
ExtraTexts ==
    { <<DQ, SP, BAR, BAR, SP, "a">>,
      <<"a", CR, LF, SP, SP, "a">> }

\* the separator of the KEY=VALUE segments, " || "
Delim == <<SP, BAR, BAR, SP>>

RECURSIVE DoubleQuotes(_)
\* str.replace(/"/g, '""')
DoubleQuotes(str) ==
    IF str = <<>> THEN <<>>
    ELSE (IF Head(str) = DQ THEN <<DQ, DQ>> ELSE <<Head(str)>>)
         \o DoubleQuotes(Tail(str))

\* const quote = (str) => `"${(str || '').replace(/"/g, '""')}"`
quote(str) == <<DQ>> \o DoubleQuotes(str) \o <<DQ>>

\* \s
IsSpace(c) == c \in {SP, LF, CR}

RECURSIVE SkipSpace(_)
SkipSpace(str) ==
    IF str # <<>> /\ IsSpace(Head(str)) THEN SkipSpace(Tail(str)) ELSE str

RECURSIVE ReplaceNewlines(_)
\* err.stack.replace(/\r?\n\s*/g, ' | ')
ReplaceNewlines(str) ==
    IF str = <<>> THEN <<>>
    ELSE IF Head(str) = LF
      THEN <<SP, BAR, SP>> \o ReplaceNewlines(SkipSpace(Tail(str)))
    ELSE IF Head(str) = CR /\ Len(str) >= 2 /\ str[2] = LF
      THEN <<SP, BAR, SP>> \o ReplaceNewlines(SkipSpace(Tail(Tail(str))))
    ELSE <<Head(str)>> \o ReplaceNewlines(Tail(str))

\* const stackTrace = err.stack ? err.stack.replace(...) : 'N/A'
\* (an absent stack and an empty one are both falsy)
StackTrace(stack) ==
    IF stack = <<>> THEN <<"N", "/", "A">> ELSE ReplaceNewlines(stack)

\* errorLogSingleLine, as text
ErrorLogText(f) ==
    <<"[date]">> \o Delim \o <<"LEVEL=SERVER_ERROR">> \o Delim
    \o <<"STATUS=status">> \o Delim \o <<"METHOD=method">> \o Delim
    \o <<"PATH=">> \o quote(f.path) \o Delim
    \o <<"MESSAGE=">> \o quote(f.message) \o Delim
    \o <<"STACK=">> \o quote(StackTrace(f.stack)) \o <<LF>>

\* warningLogSingleLine, as text
WarningLogText(f) ==
    <<"[date]">> \o Delim \o <<"LEVEL=CLIENT_ERROR">> \o Delim
    \o <<"STATUS=status">> \o Delim \o <<"METHOD=method">> \o Delim
    \o <<"PATH=">> \o quote(f.path) \o Delim
    \o <<"MESSAGE=">> \o quote(f.message) \o <<LF>>

\* structuredLogFormat and morgan's line + '\n', as text (the user agent
\* is drawn like the path)
RequestLogText(f) ==
    <<"[date]">> \o Delim \o <<"LEVEL=INFO">> \o Delim
    \o <<"STATUS=status">> \o Delim \o <<"METHOD=method">> \o Delim
    \o <<"PATH=">> \o quote(f.path) \o Delim
    \o <<"RES_TIME_MS=ms">> \o Delim \o <<"LENGTH=length">> \o Delim
    \o <<"REMOTE_IP=ip">> \o Delim
    \o <<"USER_AGENT=">> \o quote(f.path) \o <<LF>>

\* an error (message, stack) of a request (path) is about to be logged
InitFmt ==
    /\ Init!1 /\ Init!2 /\ Init!3 /\ Init!4 /\ Init!5 /\ Init!6 /\ Init!7
    /\ Init!8 /\ Init!9 /\ Init!10 /\ Init!11 /\ Init!12 /\ Init!13
    /\ Init!14 /\ Init!15 /\ Init!16
    /\ fmt \in { [phase |-> "input", level |-> "", message |-> m, stack |-> s,
                  path |-> p, text |-> <<>>] :
                 m \in Texts(Chars, MaxStrLen) \cup ExtraTexts,
                 s \in Texts(Chars, MaxStrLen) \cup ExtraTexts,
                 p \in Texts(PathChars, 1) }

\* the variables of the pipeline, which the formatters leave alone
pipeline == <<pc, running, req, res, err, loggers, logFile, stdout, histogram,
              appErrors, registryOk, sinkOk, streamError, crashed, boot, fd>>

RenderServerError ==
    /\ fmt.phase = "input"
    /\ fmt' = [fmt EXCEPT !.phase = "rendered", !.level = "SERVER_ERROR",
                          !.text = ErrorLogText(fmt)]
    /\ UNCHANGED pipeline

RenderClientError ==
    /\ fmt.phase = "input"
    /\ fmt' = [fmt EXCEPT !.phase = "rendered", !.level = "CLIENT_ERROR",
                          !.text = WarningLogText(fmt)]
    /\ UNCHANGED pipeline

RenderRequestLine ==
    /\ fmt.phase = "input"
    /\ fmt' = [fmt EXCEPT !.phase = "rendered", !.level = "INFO",
                          !.text = RequestLogText(fmt)]
    /\ UNCHANGED pipeline

NextFmt == RenderServerError \/ RenderClientError \/ RenderRequestLine

\* the formatters applied to every drawn record
SpecFmt == InitFmt /\ [][NextFmt]_vars

\* the text is one physical line: a newline at its end and nowhere else
OneLine(text) ==
    /\ Len(text) >= 1
    /\ text[Len(text)] = LF
    /\ \A i \in 1..(Len(text) - 1) : text[i] # LF

\* C12: every rendered record (request line or classified error line) is one
\* physical line, whatever the path, the user agent, the error message and
\* the stack trace: its only newline is the one that ends it.
C12_RecordIsOneLine ==
    fmt.phase = "rendered" => OneLine(fmt.text)

HasChar(text, c) == \E i \in 1..Len(text) : text[i] = c

\* position of the element k of a text (0: not there)
IndexOf(text, k) ==
    IF \E i \in 1..Len(text) : text[i] = k
      THEN CHOOSE i \in 1..Len(text) : text[i] = k /\ \A j \in 1..(i - 1) : text[j] # k
      ELSE 0

RECURSIVE CountDelims(_, _)
\* number of delimiters " || " found from position i on, left to right
CountDelims(text, i) ==
    IF i + 3 > Len(text) THEN 0
    ELSE IF SubSeq(text, i, i + 3) = Delim THEN 1 + CountDelims(text, i + 4)
    ELSE CountDelims(text, i + 1)

\* number of fields that splitting on " || " yields
FieldCount(text) == CountDelims(text, 1) + 1

RECURSIVE Undouble(_)
\* reads a quoted field back: "" stands for one quote; <<"?">> when a
\* quote stands alone
Undouble(str) ==
    IF str = <<>> THEN <<>>
    ELSE IF Head(str) # DQ THEN <<Head(str)>> \o Undouble(Tail(str))
    ELSE IF Len(str) >= 2 /\ str[2] = DQ THEN <<DQ>> \o Undouble(Tail(Tail(str)))
    ELSE <<"?">>

\* what stands between the outer quotes of the MESSAGE field of a
\* SERVER_ERROR text
MessageField(text) ==
    SubSeq(text, IndexOf(text, "MESSAGE=") + 2, IndexOf(text, "STACK=") - 6)

\* C13: for an error whose message holds a double quote and whose stack
\* trace holds newlines, the SERVER_ERROR line has no raw newline inside,
\* the quotes of the message stand doubled in the quoted field, and
\* splitting the line on " || " yields 7 fields.
C13_FormatterRoundTrip ==
    (/\ fmt.phase = "rendered" /\ fmt.level = "SERVER_ERROR"
     /\ HasChar(fmt.message, DQ) /\ HasChar(fmt.stack, LF))
      => /\ OneLine(fmt.text)
         /\ Undouble(MessageField(fmt.text)) = fmt.message
         /\ FieldCount(fmt.text) = 7

----------------------------------------------------------------------------
\* The error handler on its own: error objects of any status

\* the error objects handed to the error-handling middleware
ErrInputs ==
    { [message |-> m, status |-> s] :
        m \in {"boom", "bang"},
        s \in {NoStatus, 200, 302, 399, 400, 404, 499, 500, 503, 599} }

\* some middleware of a GET request calls next(err)
ErrorSignalled(r) ==
    /\ Wakes(r, "new")
    /\ boot = "up"
    /\ \A q \in Reqs : q < r => pc[q] # "new"
    /\ req' = [req EXCEPT ![r] = [NoReq EXCEPT !.method = "GET", !.path = "/any"]]
    /\ \E e \in ErrInputs : err' = [err EXCEPT ![r] = e]
    /\ pc' = [pc EXCEPT ![r] = "errorHandler"]
    /\ running' = r
    /\ UNCHANGED <<res, loggers, logFile, stdout, histogram, appErrors,
                   registryOk, sinkOk, streamError, crashed, boot, fd, fmt>>

NextHandler ==
    \E r \in Reqs :
       \/ ErrorSignalled(r)
       \/ ErrorHandler(r)
       \/ ResponseFinish(r)

\* the error-handling middleware applied to every drawn error object
SpecHandler == Init /\ [][NextHandler]_vars

\* C14: the classification follows the status alone: an error of status
\* >= 500 (or without status) gets a SERVER_ERROR line, one of status
\* 400..499 a CLIENT_ERROR line, one of any other status no classified line
\* and no counter increment; no request gets both kinds of line.
C14_ClassifiedByStatus ==
    LET lines == FileLines IN
        \A r \in Reqs :
            (Responded(r) /\ res[r].body.kind = "json-error") =>
                LET s == IF err[r].status = NoStatus THEN 500 ELSE err[r].status
                    server == CountLines(lines, r, "SERVER_ERROR")
                    client == CountLines(lines, r, "CLIENT_ERROR")
                IN  /\ s >= 500 => server = 1 /\ client = 0
                    /\ (s >= 400 /\ s <= 499) => client = 1 /\ server = 0
                    /\ s < 400 => server = 0 /\ client = 0 /\ CountIncs(r) = 0
                    /\ ~(server >= 1 /\ client >= 1)

C14_Witness ==
    \E r, q \in Reqs :
        /\ Completed(r) /\ err[r].status = 302 /\ res[r].statusCode = 302
        /\ Completed(q) /\ err[q].status = 499
        /\ CountLines(FileLines, q, "CLIENT_ERROR") = 1

----------------------------------------------------------------------------
\* Startup: the evaluation of the module, from the logs directory to
\* app.listen.  sinkOk = FALSE from the start: logs/main.log cannot be
\* opened.

\* if (!fs.existsSync(logsDir)) fs.mkdirSync(logsDir, { recursive: true });
\* mkdirSync throws when the directory cannot be created, which ends the
\* evaluation of the module and the process
MkDir ==
    /\ boot = "mkdir" /\ ~crashed
    /\ \E created \in BOOLEAN :
         IF created THEN boot' = "createWriteStream" /\ crashed' = crashed
                    ELSE boot' = "mkdirFailed" /\ crashed' = TRUE
    /\ UNCHANGED <<pc, running, req, res, err, loggers, logFile, stdout, histogram,
                   appErrors, registryOk, sinkOk, streamError, fd, fmt>>

\* const accessLogStream = fs.createWriteStream(logFilePath, { flags: 'a' }):
\* returns at once, the file is opened in the background
CreateWriteStream ==
    /\ boot = "createWriteStream" /\ ~crashed
    /\ fd' = "pending"
    /\ boot' = "listen"
    /\ UNCHANGED <<pc, running, req, res, err, loggers, logFile, stdout, histogram,
                   appErrors, registryOk, sinkOk, streamError, crashed, fmt>>

\* app.listen(PORT, ...)
Listen ==
    /\ boot = "listen" /\ ~crashed
    /\ boot' = "up"
    /\ UNCHANGED <<pc, running, req, res, err, loggers, logFile, stdout, histogram,
                   appErrors, registryOk, sinkOk, streamError, crashed, fd, fmt>>

\* the open of the log file completes, in a turn of the event loop after
\* the module was evaluated; a failure is emitted as the stream's 'error'
\* event, which has no listener
OpenCompletes ==
    /\ fd = "pending" /\ boot = "up" /\ running = 0 /\ ~crashed
    /\ IF sinkOk THEN fd' = "open" /\ crashed' = crashed
                 ELSE fd' = "failed" /\ crashed' = (ErrorListeners = {})
    /\ UNCHANGED <<pc, running, req, res, err, loggers, logFile, stdout, histogram,
                   appErrors, registryOk, sinkOk, streamError, boot, fmt>>

InitStartup ==
    /\ Init!1 /\ Init!2 /\ Init!3 /\ Init!4 /\ Init!5 /\ Init!6 /\ Init!7
    /\ Init!8 /\ Init!9 /\ Init!10 /\ Init!11 /\ Init!13 /\ Init!14
    /\ Init!17
    /\ sinkOk \in BOOLEAN
    /\ boot = "mkdir"
    /\ fd = "none"

NextStartup ==
    \/ MkDir
    \/ CreateWriteStream
    \/ Listen
    \/ OpenCompletes
    \/ Next

\* the process from its start
SpecStartup == InitStartup /\ [][NextStartup]_vars

\* the server is listening
Listening == boot = "up" /\ ~crashed

\* C15: when the log directory cannot be created or the log file cannot be
\* opened, startup fails: the service is never listening and serving
\* requests without its log sink.
C15_StartupFatal ==
    /\ boot = "mkdirFailed" => crashed /\ \A r \in Reqs : pc[r] = "new"
    /\ ~sinkOk => ~(Listening /\ \E r \in Reqs : Responded(r))

----------------------------------------------------------------------------
\* Order of the lines

\* the line of request r at a level is among the lines
HasLine(lines, r, level) ==
    \E i \in 1..Len(lines) : LineRid(lines[i]) = r /\ LineLevel(lines[i]) = level

\* the lines of a file
LinesOf(file) == SplitLines(file, 1, 1, <<>>)[1]

\* from the lines old to the lines new, exactly the INFO line of request r
\* was appended, after the INFO lines of exactly the requests that had
\* finished before
FinishAppends(r, old, new) ==
    /\ Len(new) = Len(old) + 1
    /\ SubSeq(new, 1, Len(old)) = old
    /\ LineRid(new[Len(new)]) = r
    /\ LineLevel(new[Len(new)]) = "INFO"
    /\ \A q \in Reqs \ {r} : HasLine(old, q, "INFO") <=> pc[q] = "finished"

\* C16: the request lines of distinct requests stand in the log file in the
\* order in which the responses finished, not in the order of arrival: the
\* step that finishes a response appends that request's INFO line after the
\* INFO lines of exactly the requests that finished before it.
C16_CompletionOrder ==
    [][ \A r \in Reqs :
          (pc[r] = "sent" /\ pc'[r] = "finished") =>
              FinishAppends(r, LinesOf(logFile), LinesOf(logFile')) ]_vars

\* requests are numbered in the order of arrival: the later request's line
\* stands before the earlier request's line
C16_Witness ==
    LET lines == FileLines
    IN  \E i, j \in 1..Len(lines) :
            /\ i < j
            /\ LineLevel(lines[i]) = "INFO" /\ LineLevel(lines[j]) = "INFO"
            /\ LineRid(lines[i]) > LineRid(lines[j])
            /\ \A r \in Reqs : Completed(r)

----------------------------------------------------------------------------
\* Scraping

IsScrape(rq) == rq # NoReq /\ rq.method = "GET" /\ rq.path = "/metrics"

\* number of the classified error lines
CountClassified(lines) ==
    Cardinality({ i \in 1..Len(lines) :
                    LineLevel(lines[i]) \in {"SERVER_ERROR", "CLIENT_ERROR"} })

SameClassified(old, new) == CountClassified(old) = CountClassified(new)

\* C17: GET /metrics is read-only and idempotent: no step of a scrape changes
\* the errors counter or any of its series or writes a classified error line;
\* the scrape is answered 200 with the exposition holding the counter's
\* current value; and a scrape answered while the counter still has the value
\* an earlier scrape reported reports that same value.
C17_ScrapeReadOnly ==
    [][ \A r \in Reqs :
          (pc[r] # pc'[r] /\ IsScrape(req'[r])) =>
              /\ appErrors' = appErrors
              /\ SameClassified(LinesOf(logFile), LinesOf(logFile'))
              /\ (pc'[r] \in {"sent", "finished"}) =>
                    /\ res'[r].headersSent
                    /\ res'[r].statusCode = 200
                    /\ res'[r].body.kind = "exposition"
              /\ (pc[r] = "metricsAwait" /\ pc'[r] = "sent") =>
                    /\ res'[r].body.status = Len(appErrors')
                    /\ \A q \in Reqs \ {r} :
                         (IsScrape(req[q]) /\ Responded(q)
                             /\ res[q].body.status = Len(appErrors))
                           => res'[r].body.status = res[q].body.status ]_vars

\* a scrape was answered after an error had been counted
C17_Witness ==
    \E r \in Reqs :
        /\ IsScrape(req[r]) /\ Responded(r)
        /\ res[r].body.status >= 1

----------------------------------------------------------------------------
\* Responses

\* the event loop runs every callback that is ready
SpecLive == Spec /\ WF_vars(Next)

\* C18: every request receives exactly one response: a request that has
\* arrived is eventually answered on every path through the chain, a response
\* that went out is never replaced by a second one, and after it went out the
\* chain does not continue (only the finishing of the response follows).
C18_ExactlyOneResponse ==
    /\ \A r \in Reqs : (pc[r] # "new") ~> Responded(r)
    /\ [](\A r \in Reqs : res[r].headersSent <=> Responded(r))
    /\ [][ \A r \in Reqs :
             res[r].headersSent =>
                 /\ res'[r] = res[r]
                 /\ pc'[r] \in {"sent", "finished"}
                 /\ running' # r ]_vars

\* a request to a route that signals an error and a request to an unknown
\* path were both answered
C18_Witness ==
    \E r, q \in Reqs :
        /\ Completed(r) /\ req[r].route = "/error" /\ res[r].statusCode = 500
        /\ Completed(q) /\ Unmatched(q) /\ res[q].statusCode = 404

----------------------------------------------------------------------------
\* Order of the lines of one request

Classified == {"SERVER_ERROR", "CLIENT_ERROR"}

\* the request was answered by the error handler with a status of 400 or more
EndedByErrorHandler(r) ==
    /\ Completed(r)
    /\ res[r].body.kind = "json-error"
    /\ res[r].statusCode >= 400

\* C19: a request that ends through the error handler with status >= 400 has
\* a classified error line (SERVER_ERROR or CLIENT_ERROR) and a request
\* (INFO) line in the log file, and for every request each of its classified
\* lines stands before its request line.
C19_ErrorLineFirst ==
    LET lines == FileLines
    IN  \A r \in Reqs :
            /\ \A i, j \in 1..Len(lines) :
                   ( /\ LineRid(lines[i]) = r /\ LineLevel(lines[i]) \in Classified
                     /\ LineRid(lines[j]) = r /\ LineLevel(lines[j]) = "INFO" )
                   => i < j
            /\ EndedByErrorHandler(r) =>
                   /\ HasLine(lines, r, "INFO")
                   /\ \E l \in Classified : HasLine(lines, r, l)

\* a request that ended through the error handler has both of its lines in
\* the file, with a line of another request between them
C19_Witness ==
    LET lines == FileLines
    IN  \E r \in Reqs :
            /\ EndedByErrorHandler(r)
            /\ \E i, k, j \in 1..Len(lines) :
                   /\ i < k /\ k < j
                   /\ LineRid(lines[i]) = r /\ LineLevel(lines[i]) \in Classified
                   /\ LineRid(lines[k]) # r
                   /\ LineRid(lines[j]) = r /\ LineLevel(lines[j]) = "INFO"

----------------------------------------------------------------------------
\* The errors counter and the log file

\* number of the SERVER_ERROR lines
CountServerErrors(lines) ==
    Cardinality({ i \in 1..Len(lines) : LineLevel(lines[i]) = "SERVER_ERROR" })

\* the status the error handler sees for the error of request r
HandlerStatus(r) == IF err[r].status = 0 THEN 500 ELSE err[r].status

\* C20: the sum of application_errors_total over all label tuples equals the
\* number of SERVER_ERROR lines in the log file; the counter never decreases;
\* and it is incremented, by one, by nothing but the error handler handling
\* an error of status >= 500.
C20_CounterMatchesLog ==
    /\ [](Len(appErrors) = CountServerErrors(FileLines))
    /\ [][ /\ Len(appErrors') >= Len(appErrors)
           /\ SubSeq(appErrors', 1, Len(appErrors)) = appErrors
           /\ appErrors' # appErrors =>
                 \E r \in Reqs :
                     /\ running = r /\ pc[r] = "errorHandler"
                     /\ HandlerStatus(r) >= 500
                     /\ Len(appErrors') = Len(appErrors) + 1
                     /\ appErrors'[Len(appErrors')].rid = r
                     /\ appErrors'[Len(appErrors')].status_code = HandlerStatus(r) ]_vars

\* all requests completed, two server errors were counted and logged
C20_Witness ==
    /\ \A r \in Reqs : Completed(r)
    /\ Len(appErrors) >= 2
    /\ CountServerErrors(FileLines) >= 2
====
